---- MODULE Spec2Model ----
(***************************************************************************)
(* Model of the NEC deck generator src/tools/NEC/nec_sd_generator.py and   *)
(* of the watchdog src/restart_borealis.py.                                *)
(*                                                                         *)
(* Numbers.  Python floats are modelled in fixed point:                    *)
(*   lengths and coordinates  : units of 0.1 mm   (Metre = 10000)          *)
(*   wire radii               : micrometres                                *)
(*   phases                   : millidegrees                               *)
(*   currents and sin/cos     : units of 1e-6     (One = 1000000)          *)
(* A float that is non-zero but smaller than the resolution is kept        *)
(* non-zero (Tiny): the code tests floats for being exactly 0.             *)
(***************************************************************************)
EXTENDS Integers, Sequences, FiniteSets, TLC

(***************************************************************************)
(* Bounds of the model.                                                    *)
(***************************************************************************)
MaxAntennas == 4
MaxIntAntennas == 2
MaxBeam == 1
MaxRuns == 2
MaxLibWires == 20
MaxLen == 2
MaxThreadWires == 3
MaxSegments == 4
MaxSubArrays == 4
MaxSeconds == 3

(***************************************************************************)
(* Program constants.                                                      *)
(***************************************************************************)
\* fixed-point scales: units per metre, units per 1.0
Metre == 100 * 100
One == 1000 * 1000
Tiny == 1
segment_length == 18737
wavelength == 285517
copper_conductivity == 59600000
aluminum_conductivity == 35000000
awg13_radius == 1828
antenna_spacing_default == 152400
int_x_spacing == 0
int_y_spacing == -1000000
int_z_spacing == 0
reflector_spacing == 7070
reflector_wires == 21
reflector_start_height == 150000
TrigScale == 100 * 100
cos45 == 7071
sin45 == 7071
number_of_beams == 16
beam_separation == 3240

Abs(x) == IF x < 0 THEN -x ELSE x

\* int(): Python truncates a float towards zero
Trunc(num, den) == IF num >= 0 THEN num \div den ELSE -((-num) \div den)

RECURSIVE IsqrtBits(_, _, _)
IsqrtBits(s, r, b) ==
    IF b = 0 THEN r
    ELSE IF (r + b) * (r + b) <= s THEN IsqrtBits(s, r + b, b \div 2)
         ELSE IsqrtBits(s, r, b \div 2)

\* math.sqrt, rounded down to the resolution
Isqrt(s) == IsqrtBits(s, 0, 32768)

\* sin of a whole number of degrees 0..90, times One
SinTable == <<17452, 34899, 52336, 69756, 87156, 104528, 121869, 139173,
    156434, 173648, 190809, 207912, 224951, 241922, 258819, 275637, 292372,
    309017, 325568, 342020, 358368, 374607, 390731, 406737, 422618, 438371,
    453990, 469472, 484810, 500000, 515038, 529919, 544639, 559193, 573576,
    587785, 601815, 615661, 629320, 642788, 656059, 669131, 681998, 694658,
    707107, 719340, 731354, 743145, 754710, 766044, 777146, 788011, 798636,
    809017, 819152, 829038, 838671, 848048, 857167, 866025, 874620, 882948,
    891007, 898794, 906308, 913545, 920505, 927184, 933580, 939693, 945519,
    951057, 956305, 961262, 965926, 970296, 974370, 978148, 981627, 984808,
    987688, 990268, 992546, 994522, 996195, 997564, 998630, 999391, 999848,
    1000000>>

SinDeg(d) ==
    LET q == d % 360
        quarter(a) == IF a = 0 THEN 0 ELSE SinTable[a]
    IN  IF q <= 90 THEN quarter(q)
        ELSE IF q <= 180 THEN quarter(180 - q)
        ELSE IF q <= 270 THEN -quarter(q - 180)
        ELSE -quarter(360 - q)

\* A float result that is not exactly 0.0 stays distinguishable from 0.0
NonZero(v) == IF v = 0 THEN Tiny ELSE v

\* math.sin(phase * math.pi / 180.0): exactly 0.0 only for phase = 0
math_sin(phase) ==
    IF phase = 0 THEN 0 ELSE NonZero(SinDeg((phase + 500) \div 1000))

\* math.cos(phase * math.pi / 180.0): never exactly 0.0, 1.0 for phase = 0
math_cos(phase) ==
    IF phase = 0 THEN One ELSE NonZero(SinDeg(((phase + 500) \div 1000) + 90))

(***************************************************************************)
(* Wire                                                                    *)
(***************************************************************************)
\* the sqrt of a perfect square is taken directly (an axis-parallel wire)
wire_length(x1, y1, z1, x2, y2, z2) ==
    IF y2 = y1 /\ z2 = z1 THEN Abs(x2 - x1)
    ELSE Isqrt((z2 - z1) * (z2 - z1) + (y2 - y1) * (y2 - y1)
               + (x2 - x1) * (x2 - x1))

\* the quotient without the step to the next odd number
auto_segments_plain(length) == Trunc(length, segment_length)

auto_segments(length) ==
    LET segments == Trunc(length, segment_length)
    IN  IF segments % 2 = 0 THEN segments + 1 ELSE segments

next_wire_number_stuck(wn) == wn

\* global wire_number; wire_number += 1
next_wire_number(wn) == wn + 1

\* the global wire_number after k more executions of `wire_number += 1`
RECURSIVE wire_number_after(_, _)
wire_number_after(wn, k) ==
    IF k <= 0 THEN wn ELSE next_wire_number(wire_number_after(wn, k - 1))

\* Wire.__init__: wn is the global wire_number before the call; the
\* wire_number of the result is the global wire_number after it
Wire(wn, x1, y1, z1, x2, y2, z2, radius, segments) ==
    [wire_number |-> next_wire_number(wn),
     segments |-> IF segments = 0
                  THEN auto_segments(wire_length(x1, y1, z1, x2, y2, z2))
                  ELSE segments,
     x1 |-> x1, y1 |-> y1, z1 |-> z1, x2 |-> x2, y2 |-> y2, z2 |-> z2,
     radius |-> radius]

\* the first segment in place of the middle one
get_mid_segment_first(w) == IF w.segments % 2 = 0 THEN 0 ELSE 1

\* 0 stands for the ValueError raised when the segment count is even
get_mid_segment(w) ==
    IF w.segments % 2 = 0 THEN 0 ELSE 1 + Trunc(w.segments, 2)

\* the tag 0 in place of the wire number
get_wire_number_zero(w) == 0

get_wire_number(w) == w.wire_number

translate(w, x, y, z) ==
    [w EXCEPT !.x1 = @ + x, !.y1 = @ + y, !.z1 = @ + z,
              !.x2 = @ + x, !.y2 = @ + y, !.z2 = @ + z]

\* a rotation that turns the wire about the x axis and returns
rotate_x_axis_done(w, alpha) ==
    [raised |-> "none",
     wire |-> [w EXCEPT !.y1 = -w.z1, !.z1 = w.y1, !.y2 = -w.z2, !.z2 = w.y2]]

\* Wire.rotate_x_axis / rotate_y_axis / rotate_z_axis: the result is the
\* exception raised and the wire as the call leaves it
rotate_x_axis(w, alpha) == [raised |-> "NotImplementedError", wire |-> w]

rotate_y_axis(w, beta) == [raised |-> "NotImplementedError", wire |-> w]

rotate_z_axis(w, gamma) == [raised |-> "NotImplementedError", wire |-> w]

\* Wire.rotate: the three rotations one after the other, up to the first
\* that raises
rotate(w, alpha, beta, gamma) ==
    LET rx == rotate_x_axis(w, alpha)
        ry == rotate_y_axis(rx.wire, beta)
    IN  IF rx.raised # "none" THEN rx
        ELSE IF ry.raised # "none" THEN ry
        ELSE rotate_z_axis(ry.wire, gamma)

(***************************************************************************)
(* Cards.  Every card of the deck is a record of one shape: the mnemonic,  *)
(* the tag (wire identifier) and segment fields, and the other fields.     *)
(***************************************************************************)
Card(mnemonic, tag, seg, fields) ==
    [card |-> mnemonic, tag |-> tag, seg |-> seg, fields |-> fields]

\* Wire.__repr__
repr_wire(w) ==
    Card("GW", w.wire_number, w.segments,
         <<w.x1, w.y1, w.z1, w.x2, w.y2, w.z2, w.radius>>)

\* Load.__init__ / __repr__
Load(tag, start_segment, end_segment) ==
    Card("LD4", tag, start_segment, <<end_segment, 100, 0>>)

\* a source that replaces a zero real part only
Source_real_nudged(tag, segment, excitation_real, excitation_imag, current_source) ==
    IF current_source
    THEN Card("EX6", tag, segment,
              <<IF excitation_real = 0 THEN Tiny ELSE excitation_real,
                excitation_imag>>)
    ELSE Card("EX0", tag, segment, <<excitation_real, excitation_imag>>)

\* Source.__init__ / __repr__
Source(tag, segment, excitation_real, excitation_imag, current_source) ==
    IF current_source
    THEN Card("EX6", tag, segment,
              <<IF excitation_real = 0 THEN Tiny ELSE excitation_real,
                IF excitation_imag = 0 THEN Tiny ELSE excitation_imag>>)
    ELSE Card("EX0", tag, segment, <<excitation_real, excitation_imag>>)

\* the line with the impedance negated, crossed or not
TransmissionLine_twisted(tag1, segment1, tag2, segment2, crossed, impedance, length) ==
    Card("TL", tag1, segment1, <<tag2, segment2, -impedance, length>>)

\* the line with the impedance as given, crossed or not
TransmissionLine_straight(tag1, segment1, tag2, segment2, crossed, impedance, length) ==
    Card("TL", tag1, segment1, <<tag2, segment2, impedance, length>>)

\* TransmissionLine.__init__ / __repr__
TransmissionLine(tag1, segment1, tag2, segment2, crossed, impedance, length) ==
    Card("TL", tag1, segment1,
         <<tag2, segment2, IF crossed THEN -impedance ELSE impedance, length>>)

\* create_wire_conductivity
create_wire_conductivity(tag_number, conductivity) ==
    Card("LD5", tag_number, 0, <<0, conductivity>>)

Control(mnemonic) == Card(mnemonic, 0, 0, <<>>)

\* comment block of an element (CM ... CE)
Comment(kind) == Card("CM", 0, 0, <<kind>>)

(***************************************************************************)
(* Elements.  A constructor takes the global wire_number before the call   *)
(* and returns the object together with the exception it raised ("none"    *)
(* when it returned) and the global wire_number after the call.            *)
(***************************************************************************)
Element(kind, wires, loads, excitation, transmissionlines, raised, wn) ==
    [kind |-> kind, wires |-> wires, loads |-> loads,
     excitation |-> excitation, transmissionlines |-> transmissionlines,
     raised |-> raised, wire_number |-> wn]

\* the default dimensions of TTFD.__init__
TTFD_defaults ==
    [height |-> 10 * Metre, mid_width |-> 12 * Metre, top_width |-> 8 * Metre,
     wire_spacing |-> 15 * 1000]

\* TTFD.__init__, dims holding height, mid_width, top_width and
\* wire_spacing; the seven wires are built in the order topleft, top,
\* topright, middle, bottomleft, bottom, bottomright
TTFD(wn, dims, global_x, global_y, global_z, current_real, current_imag) ==
    LET height == dims.height
        mid_width == dims.mid_width
        top_width == dims.top_width
        wire_spacing == dims.wire_spacing
        r == awg13_radius
        topleftwire == translate(
            Wire(wire_number_after(wn, 0), -(mid_width \div 2), 0, height,
                 -(top_width \div 2), 0, wire_spacing + height, r, 0),
            global_x, global_y, global_z)
        topwire == translate(
            Wire(wire_number_after(wn, 1), -(top_width \div 2), 0,
                 wire_spacing + height, top_width \div 2, 0,
                 wire_spacing + height, r, 0),
            global_x, global_y, global_z)
        toprightwire == translate(
            Wire(wire_number_after(wn, 2), mid_width \div 2, 0, height,
                 top_width \div 2, 0, wire_spacing + height, r, 0),
            global_x, global_y, global_z)
        middlewire == translate(
            Wire(wire_number_after(wn, 3), -(mid_width \div 2), 0, height,
                 mid_width \div 2, 0, height, r, 0),
            global_x, global_y, global_z)
        bottomleftwire == translate(
            Wire(wire_number_after(wn, 4), -(mid_width \div 2), 0, height,
                 -(top_width \div 2), 0, -wire_spacing + height, r, 0),
            global_x, global_y, global_z)
        bottomwire == translate(
            Wire(wire_number_after(wn, 5), -(top_width \div 2), 0,
                 -wire_spacing + height, top_width \div 2, 0,
                 -wire_spacing + height, r, 0),
            global_x, global_y, global_z)
        bottomrightwire == translate(
            Wire(wire_number_after(wn, 6), mid_width \div 2, 0, height,
                 top_width \div 2, 0, -wire_spacing + height, r, 0),
            global_x, global_y, global_z)
        wires == <<topleftwire, topwire, toprightwire, middlewire,
                   bottomleftwire, bottomwire, bottomrightwire>>
        topload == Load(get_wire_number(topwire), get_mid_segment(topwire),
                        get_mid_segment(topwire))
        bottomload == Load(get_wire_number(bottomwire),
                           get_mid_segment(bottomwire),
                           get_mid_segment(bottomwire))
        excitation == Source(get_wire_number(middlewire),
                             get_mid_segment(middlewire),
                             current_real, current_imag, TRUE)
    IN  IF get_mid_segment(topwire) = 0
        THEN Element("TTFD", wires, <<>>, <<>>, <<>>, "ValueError",
                     bottomrightwire.wire_number)
        ELSE IF get_mid_segment(bottomwire) = 0
        THEN Element("TTFD", wires, <<topload>>, <<>>, <<>>, "ValueError",
                     bottomrightwire.wire_number)
        ELSE IF get_mid_segment(middlewire) = 0
        THEN Element("TTFD", wires, <<topload, bottomload>>, <<>>, <<>>,
                     "ValueError", bottomrightwire.wire_number)
        ELSE Element("TTFD", wires, <<topload, bottomload>>, <<excitation>>,
                     <<>>, "none", bottomrightwire.wire_number)

\* the literal dimension table of LogPeriodic.__init__:
\* total length, y position, segments of each of the ten drivens
LogPeriodicTable ==
    << <<60400, 0, 13>>, <<67000, 7250, 15>>, <<75700, 15850, 17>>,
       <<84600, 25900, 19>>, <<94900, 37650, 21>>, <<105500, 51650, 23>>,
       <<118700, 66800, 25>>, <<133700, 83850, 27>>, <<153800, 103250, 29>>,
       <<154000, 116300, 31>> >>

\* the ten drivens, built in the order of the table
LogPeriodicDrivens(wn, height) ==
    [index \in 1..Len(LogPeriodicTable) |->
        Wire(wire_number_after(wn, index - 1),
             -(LogPeriodicTable[index][1] \div 2), LogPeriodicTable[index][2],
             height, LogPeriodicTable[index][1] \div 2,
             LogPeriodicTable[index][2], height, 100 * 100,
             LogPeriodicTable[index][3])]

\* LogPeriodic.__init__: the global offsets are accepted and not used
LogPeriodic(wn, global_x, global_y, global_z, current_real, current_imag) ==
    LET height == 15 * Metre
        drivens == LogPeriodicDrivens(wn, height)
        excitation == Source(get_wire_number(drivens[1]),
                             get_mid_segment(drivens[1]),
                             current_real, current_imag, TRUE)
        transmissionlines ==
            [i \in 1..(Len(drivens) - 1) |->
                TransmissionLine(get_wire_number(drivens[i]),
                                 get_mid_segment(drivens[i]),
                                 get_wire_number(drivens[i + 1]),
                                 get_mid_segment(drivens[i + 1]),
                                 TRUE, 50, 0)]
    IN  Element("LogPeriodic", drivens, <<>>, <<excitation>>,
                transmissionlines, "none", drivens[Len(drivens)].wire_number)

\* length and y position of the directors, the reflector and the driven
YagiTable ==
    << <<7490, 47976>>, <<7240, 33276>>, <<7110, 17908>>, <<5910, 508>>,
       <<5910, 508>>, <<8890, 60836>>, <<7620, 53976>> >>

YagiWires(wn, height) ==
    [index \in 1..Len(YagiTable) |->
        Wire(wire_number_after(wn, index - 1),
             -(YagiTable[index][1] \div 2), YagiTable[index][2], height,
             YagiTable[index][1] \div 2, YagiTable[index][2], height,
             17500, 0)]

\* YAGI.__init__: five directors, one reflector, one driven are built;
\* the excitation is then taken from self.middlewire, an attribute that
\* YAGI never assigns, so the constructor raises AttributeError
YAGI(wn, global_x, global_y, global_z, current_real, current_imag) ==
    LET height == 15 * Metre
        wires == YagiWires(wn, height)
    IN  Element("YAGI", wires, <<>>, <<>>, <<>>, "AttributeError",
                wires[Len(wires)].wire_number)

\* Reflector.__init__; awg 13, angle 45, start height 15 m
ReflectorWires(wn, num_wires, length_m, spacing_m, global_x, global_y, global_z) ==
    [i \in 1..num_wires |->
        LET reflector_wire == i - 1
            x1 == -(length_m \div 2)
            x2 == length_m \div 2
            y == -((reflector_wire * cos45 * spacing_m) \div TrigScale)
            z == (reflector_wire * sin45 * spacing_m) \div TrigScale
        IN  Wire(wire_number_after(wn, reflector_wire),
                 x1 + global_x, y + global_y,
                 reflector_start_height - z + global_z,
                 x2 + global_x, y + global_y,
                 reflector_start_height - z + global_z, awg13_radius, 0)]

\* a fence that places no wire when num_wires is 0
Reflector_empty(wn, length_m, spacing_m, num_wires, global_x, global_y, global_z) ==
    LET ws == ReflectorWires(wn, num_wires, length_m, spacing_m,
                             global_x, global_y, global_z)
    IN  [reflector_wires |-> ws, raised |-> "none",
         wire_number |-> IF ws = <<>> THEN wn ELSE ws[Len(ws)].wire_number]

Reflector(wn, length_m, spacing_m, num_wires, global_x, global_y, global_z) ==
    IF num_wires = 0
    THEN [reflector_wires |-> <<>>, raised |-> "NotImplementedError",
          wire_number |-> wn]
    ELSE LET ws == ReflectorWires(wn, num_wires, length_m, spacing_m,
                                  global_x, global_y, global_z)
         IN  [reflector_wires |-> ws, raised |-> "none",
              wire_number |-> IF ws = <<>> THEN wn
                              ELSE ws[Len(ws)].wire_number]

(***************************************************************************)
(* repr_* of the elements: sequences of cards                              *)
(***************************************************************************)
repr_geometry(e) == [i \in 1..Len(e.wires) |-> repr_wire(e.wires[i])]

\* the loads and, with them, the excitation
repr_loads_and_excitation(e) == e.loads \o e.excitation

repr_loads(e) == e.loads

repr_excitations(e) == e.excitation

\* the transmission lines preceded by the excitation
repr_transmissionlines_with_excitation(e) == e.excitation \o e.transmissionlines

repr_transmissionlines(e) == e.transmissionlines

repr_comment_string(e) == <<Comment(e.kind)>>

\* the fence without its last wire
repr_reflector_short(r) ==
    [i \in 1..(Len(r.reflector_wires) - 1) |-> repr_wire(r.reflector_wires[i])]

repr_reflector(r) ==
    [i \in 1..Len(r.reflector_wires) |-> repr_wire(r.reflector_wires[i])]

(***************************************************************************)
(* Array assembly                                                          *)
(***************************************************************************)
\* the number of wires one element of the array builds
element_wires(log_periodics) ==
    IF log_periodics THEN Len(LogPeriodicTable) ELSE 7

\* the element the loop of create_main_array / create_int_array builds for
\* index `antenna`; p holds the arguments of the call, wn is the global
\* wire_number when the loop starts
array_element(p, antenna, wn) ==
    LET phase == p.antenna_phases[antenna + 1]
        magnitude == p.antenna_magnitudes[antenna + 1]
        real_cur == magnitude * math_cos(phase)
        imag_cur == magnitude * math_sin(phase)
        array_length_m == (p.num_antennas - 1) * p.antenna_spacing_m
        x_position == antenna * p.antenna_spacing_m
                      - Trunc(array_length_m, 2)
        global_x_position == x_position + p.x
        before == wire_number_after(wn, antenna * element_wires(p.log_periodics))
    IN  IF p.log_periodics
        THEN LogPeriodic(before, global_x_position, p.y, p.z,
                         real_cur, imag_cur)
        ELSE TTFD(before, TTFD_defaults, global_x_position, p.y, p.z,
                  real_cur, imag_cur)

array_loop(p, wn) ==
    LET n == IF p.num_antennas > 0 THEN p.num_antennas ELSE 0
        objs == [i \in 1..n |-> array_element(p, i - 1, wn)]
    IN  [antenna_objects |-> objs, raised |-> "none",
         wire_number |-> IF n = 0 THEN wn ELSE objs[n].wire_number]

\* the length checks made after the elements were built
create_array_late_check(wn, p) ==
    IF Len(p.antenna_magnitudes) # p.num_antennas
       \/ Len(p.antenna_phases) # p.num_antennas
    THEN LET n == IF p.num_antennas > 0 THEN p.num_antennas ELSE 0
             built == array_loop([p EXCEPT
                                    !.antenna_magnitudes = [i \in 1..n |-> 1],
                                    !.antenna_phases = [i \in 1..n |-> 0]],
                                 wn)
         IN  [antenna_objects |-> <<>>, raised |-> "ValueError",
              wire_number |-> built.wire_number]
    ELSE array_loop(p, wn)

\* the body shared by create_main_array and create_int_array: the two
\* length checks, then the loop
create_array(wn, p) ==
    IF Len(p.antenna_magnitudes) # p.num_antennas
       \/ Len(p.antenna_phases) # p.num_antennas
    THEN [antenna_objects |-> <<>>, raised |-> "ValueError",
          wire_number |-> wn]
    ELSE array_loop(p, wn)

create_main_array(wn, num_antennas, antenna_spacing_m, antenna_magnitudes, antenna_phases, log_periodics) ==
    create_array(wn, [num_antennas |-> num_antennas,
                      antenna_spacing_m |-> antenna_spacing_m,
                      antenna_magnitudes |-> antenna_magnitudes,
                      antenna_phases |-> antenna_phases,
                      log_periodics |-> log_periodics,
                      x |-> 0, y |-> 0, z |-> 0])

create_int_array(wn, num_antennas, antenna_spacing_m, x_spacing, y_spacing, z_spacing, antenna_magnitudes, antenna_phases, log_periodics) ==
    create_array(wn, [num_antennas |-> num_antennas,
                      antenna_spacing_m |-> antenna_spacing_m,
                      antenna_magnitudes |-> antenna_magnitudes,
                      antenna_phases |-> antenna_phases,
                      log_periodics |-> log_periodics,
                      x |-> x_spacing, y |-> y_spacing, z |-> z_spacing])

(***************************************************************************)
(* Beamforming                                                             *)
(***************************************************************************)
\* (beam_number - number_of_beams / 2.0 + 0.5) * beam_separation
calculate_angle_from_beam(beam_number) ==
    ((2 * beam_number - number_of_beams + 1) * beam_separation) \div 2

\* math.sin(calculate_angle_from_beam(b) * math.pi / 180.0) * 1000 for
\* the beam numbers 0, 1, 2, ...
BeamSin == <<-412, -359, -306, -252, -197, -141, -85, -28, 28, 85, 141,
             197, 252, 306, 359, 412, 462, 512>>

calculate_phase_from_beam(beam_number, antenna_spacing_m) ==
    LET num == 360 * BeamSin[beam_number + 1] * (antenna_spacing_m \div 100)
        den == wavelength \div 100
    IN  IF num >= 0 THEN num \div den ELSE -((-num) \div den)

\* rel_phase of lines 1035-1038.  args.beam is the int 0 of the argparse
\* default when -b is not given and a float otherwise; `is not 0` compares
\* object identity, which only the default satisfies
rel_phase_of(a) ==
    IF a.beam_given THEN calculate_phase_from_beam(a.beam, a.antenna_spacing)
    ELSE 0

\* calculate_broadened_phase where `/` between ints is integer division:
\* the phases, or the exception raised.  sin(acos(x) - pi/2) is -x, so
\* temp_phase is -180 * (2m + 1) * num_sub_arrays / num_antennas degrees
broadened_elements_per_sub_array(num_antennas, num_sub_arrays) ==
    num_antennas \div num_sub_arrays

broadened_acos_in_domain(m, antenna_spacing_m, num_antennas, num_sub_arrays) ==
    Abs((2 * m + 1) * (wavelength \div 100) * num_sub_arrays)
        <= Abs(2 * num_antennas * (antenna_spacing_m \div 100))

RECURSIVE broadened_ramp(_, _, _)
broadened_ramp(temp_phase, n, elements_per_sub_array) ==
    IF n >= elements_per_sub_array THEN <<>>
    ELSE <<temp_phase * (n + 1)>>
         \o broadened_ramp(temp_phase, n + 1, elements_per_sub_array)

RECURSIVE broadened_half(_, _, _, _)
broadened_half(m, half, num_antennas, num_sub_arrays) ==
    IF m >= half THEN <<>>
    ELSE LET num == 180000 * (2 * m + 1) * num_sub_arrays
             temp_phase == IF num_antennas > 0 THEN -(num \div num_antennas)
                           ELSE num \div (-num_antennas)
         IN  broadened_ramp(temp_phase, 0,
                 broadened_elements_per_sub_array(num_antennas, num_sub_arrays))
             \o broadened_half(m + 1, half, num_antennas, num_sub_arrays)

Reverse(s) == [i \in 1..Len(s) |-> s[Len(s) + 1 - i]]

calculate_broadened_phase(antenna_spacing_m, num_antennas, num_sub_arrays) ==
    LET half == num_sub_arrays \div 2
    IN  IF num_antennas = 0
        THEN [raised |-> "ZeroDivisionError", phases |-> <<>>]
        ELSE IF \E m \in 0..(half - 1) :
                  ~broadened_acos_in_domain(m, antenna_spacing_m,
                                            num_antennas, num_sub_arrays)
        THEN [raised |-> "ValueError", phases |-> <<>>]
        ELSE LET element_phases ==
                     broadened_half(0, half, num_antennas, num_sub_arrays)
             IN  [raised |-> "none",
                  phases |-> element_phases \o Reverse(element_phases)]

(***************************************************************************)
(* The generation run (the __main__ block) as a state machine              *)
(***************************************************************************)
VARIABLES
    wire_number,            \* the module global
    pc,                     \* position of the run in the __main__ block
    args,                   \* the parsed command line
    rel_phase,
    antenna_magnitudes, antenna_phases,
    int_antenna_magnitudes, int_antenna_phases,
    main_antenna_objects, int_antenna_objects,
    f_opened,               \* open(args.output_file, 'w') was executed
    file_exists,            \* the output file exists
    deck,                   \* the cards in the output file
    error,                  \* the exception that ended the run, or "none"
    run,                    \* number of the generation run in this process
    constructed,            \* wire numbers of the wires built in this run
    first_run,              \* what the first run built and wrote
    call,                   \* the last direct call of a library function
    threads,                \* the generations running as threads
    watchdog                \* the run of src/restart_borealis.py

vars == <<wire_number, pc, args, rel_phase, antenna_magnitudes,
          antenna_phases, int_antenna_magnitudes, int_antenna_phases,
          main_antenna_objects, int_antenna_objects, f_opened, file_exists,
          deck, error, run, constructed, first_run, call, threads,
                   watchdog>>

Spacings == {antenna_spacing_default, 4 * antenna_spacing_default}

\* the command lines; -f, -x, -y, -z, -w and -o are left at their defaults
Args ==
    {a \in [antennas : -1..MaxAntennas, int_antennas : 0..MaxIntAntennas,
            beam_given : BOOLEAN, beam : 0..MaxBeam,
            circular_phase : BOOLEAN, parabolic_phase : BOOLEAN,
            broadened_beam : BOOLEAN, without_fence : BOOLEAN,
            antenna_spacing : Spacings, log_periodic : BOOLEAN] :
        ~a.beam_given => a.beam = 0}

NoCall == [name |-> "none"]

\* no generation runs as a thread
NoThreads == <<>>

\* restart_borealis.py does not run
NoWatchdog == [pc |-> "none"]

locals == <<rel_phase, antenna_magnitudes, antenna_phases,
            int_antenna_magnitudes, int_antenna_phases,
            main_antenna_objects, int_antenna_objects>>

InitRun ==
    /\ rel_phase = 0
    /\ antenna_magnitudes = <<>>
    /\ antenna_phases = <<>>
    /\ int_antenna_magnitudes = <<>>
    /\ int_antenna_phases = <<>>
    /\ main_antenna_objects = <<>>
    /\ int_antenna_objects = <<>>
    /\ f_opened = FALSE
    /\ error = "none"
    /\ constructed = <<>>

Init ==
    /\ wire_number = 0
    /\ pc = "rel_phase"
    /\ args \in Args
    /\ InitRun
    /\ file_exists = FALSE
    /\ deck = <<>>
    /\ run = 1
    /\ first_run = [pc |-> "none"]
    /\ call = NoCall
    /\ threads = NoThreads
    /\ watchdog = NoWatchdog

\* the wire numbers of a list of wires, in building order
WireNumbers(ws) == [i \in 1..Len(ws) |-> ws[i].wire_number]

\* concatenation of ss[i], ss[i+1], ...
RECURSIVE FlattenFrom(_, _)
FlattenFrom(ss, i) ==
    IF i > Len(ss) THEN <<>> ELSE ss[i] \o FlattenFrom(ss, i + 1)

Flatten(ss) == FlattenFrom(ss, 1)

ObjectWires(objs) == Flatten([i \in 1..Len(objs) |-> objs[i].wires])

Raise(exception) ==
    /\ error' = exception
    /\ pc' = "failed"

\* lines 1035-1038
ComputeRelPhase ==
    /\ pc = "rel_phase"
    /\ rel_phase' = rel_phase_of(args)
    /\ pc' = "phases"
    /\ UNCHANGED <<wire_number, args, antenna_magnitudes, antenna_phases,
                   int_antenna_magnitudes, int_antenna_phases,
                   main_antenna_objects, int_antenna_objects, f_opened,
                   file_exists, deck, error, run, constructed, first_run,
                   call, threads,
                   watchdog>>

Repeat(n, v) == [i \in 1..(IF n > 0 THEN n ELSE 0) |-> v]

\* a calculator that returns a list of zero phases
calculate_parabolic_phase_zeros(antenna_spacing_m, num_antennas) ==
    [raised |-> "none", phases |-> Repeat(num_antennas, 0)]

\* calculate_parabolic_phase: the exception raised and the list returned
calculate_parabolic_phase(antenna_spacing_m, num_antennas) ==
    [raised |-> "NotImplementedError", phases |-> <<>>]

\* calculate_circular_phase
calculate_circular_phase(antenna_spacing_m, num_antennas) ==
    [raised |-> "NotImplementedError", phases |-> <<>>]

\* lines 1044-1053: the calculator is called for the main array, then for
\* the interferometer array; the magnitude lists stay empty
PhasesNotImplemented ==
    /\ args.circular_phase \/ args.parabolic_phase
    /\ \E m \in {IF args.circular_phase
                  THEN calculate_circular_phase(args.antenna_spacing,
                                                args.antennas)
                  ELSE calculate_parabolic_phase(args.antenna_spacing,
                                                 args.antennas)} :
       \E i \in {IF args.circular_phase
                  THEN calculate_circular_phase(args.antenna_spacing,
                                                args.int_antennas)
                  ELSE calculate_parabolic_phase(args.antenna_spacing,
                                                 args.int_antennas)} :
           IF m.raised # "none"
           THEN /\ Raise(m.raised)
                /\ UNCHANGED <<antenna_magnitudes, antenna_phases,
                               int_antenna_magnitudes, int_antenna_phases>>
           ELSE IF i.raised # "none"
           THEN /\ Raise(i.raised)
                /\ antenna_phases' = m.phases
                /\ UNCHANGED <<antenna_magnitudes, int_antenna_magnitudes,
                               int_antenna_phases>>
           ELSE /\ antenna_phases' = m.phases
                /\ int_antenna_phases' = i.phases
                /\ pc' = "open"
                /\ UNCHANGED <<antenna_magnitudes, int_antenna_magnitudes,
                               error>>

\* lines 1054-1066.  range(0, num_sub_arrays / 2) raises TypeError where
\* `/` is true division and runs where it is integer division: the outcome
\* is that of the interpreter the script is run with
PhasesBroadened ==
    /\ ~args.circular_phase /\ ~args.parabolic_phase /\ args.broadened_beam
    /\ \/ /\ Raise("TypeError")
          /\ UNCHANGED <<antenna_magnitudes, antenna_phases,
                         int_antenna_magnitudes, int_antenna_phases>>
       \/ \E m \in {calculate_broadened_phase(args.antenna_spacing,
                                               args.antennas, 4)} :
          \E i \in {calculate_broadened_phase(args.antenna_spacing,
                                               args.int_antennas, 2)} :
              IF m.raised # "none"
              THEN /\ Raise(m.raised)
                   /\ UNCHANGED <<antenna_magnitudes, antenna_phases,
                                  int_antenna_magnitudes, int_antenna_phases>>
              ELSE IF i.raised # "none"
              THEN /\ Raise(i.raised)
                   /\ antenna_phases' = m.phases
                   /\ UNCHANGED <<antenna_magnitudes,
                                  int_antenna_magnitudes, int_antenna_phases>>
              ELSE /\ antenna_phases' = m.phases
                   /\ int_antenna_phases' = i.phases
                   /\ antenna_magnitudes' = Repeat(args.antennas, 1)
                   /\ int_antenna_magnitudes' = Repeat(args.int_antennas, 0)
                   /\ pc' = "open"
                   /\ UNCHANGED error

\* lines 1068-1077
PhasesUniform ==
    /\ ~args.circular_phase /\ ~args.parabolic_phase /\ ~args.broadened_beam
    /\ antenna_magnitudes' = Repeat(args.antennas, 1)
    /\ antenna_phases' =
           [i \in 1..(IF args.antennas > 0 THEN args.antennas ELSE 0) |->
               rel_phase * (i - 1)]
    /\ int_antenna_magnitudes' = Repeat(args.int_antennas, 0)
    /\ int_antenna_phases' =
           [i \in 1..(IF args.int_antennas > 0 THEN args.int_antennas ELSE 0)
               |-> rel_phase * (i - 1)]
    /\ pc' = "open"
    /\ UNCHANGED error

\* lines 1039-1077
ComputePhases ==
    /\ pc = "phases"
    /\ \/ PhasesNotImplemented
       \/ PhasesBroadened
       \/ PhasesUniform
    /\ UNCHANGED <<wire_number, args, rel_phase, main_antenna_objects,
                   int_antenna_objects, f_opened, file_exists, deck, run,
                   constructed, first_run, call, threads,
                   watchdog>>

\* line 1079: open(args.output_file, 'w') creates or truncates the file
OpenFile ==
    /\ pc = "open"
    /\ f_opened' = TRUE
    /\ file_exists' = TRUE
    /\ deck' = <<>>
    /\ pc' = "main_array"
    /\ UNCHANGED <<wire_number, args, locals, error, run, constructed,
                   first_run, call, threads,
                   watchdog>>

\* the cards a list of elements writes with one repr_* each
GeometryOf(objs) == Flatten([i \in 1..Len(objs) |-> repr_geometry(objs[i])])

LoadsOf(objs) == Flatten([i \in 1..Len(objs) |-> repr_loads(objs[i])])

\* lines 1116-1119: excitations, transmission lines and the comment block
\* of one element after the other
MainExcitationsOf(objs) ==
    Flatten([i \in 1..Len(objs) |->
                repr_excitations(objs[i]) \o repr_transmissionlines(objs[i])
                \o repr_comment_string(objs[i])])

\* lines 1121-1123: no comment block for the interferometer elements
IntExcitationsOf(objs) ==
    Flatten([i \in 1..Len(objs) |->
                repr_excitations(objs[i]) \o repr_transmissionlines(objs[i])])

\* lines 1080-1084
MainArray ==
    /\ pc = "main_array"
    /\ \E r \in {create_main_array(wire_number, args.antennas,
                                    args.antenna_spacing, antenna_magnitudes,
                                    antenna_phases, args.log_periodic)} :
           /\ wire_number' = r.wire_number
           /\ IF r.raised # "none"
              THEN /\ Raise(r.raised)
                   /\ UNCHANGED <<main_antenna_objects, deck, constructed>>
              ELSE /\ main_antenna_objects' = r.antenna_objects
                   /\ constructed' = constructed
                          \o WireNumbers(ObjectWires(r.antenna_objects))
                   /\ deck' = deck \o GeometryOf(r.antenna_objects)
                   /\ pc' = "int_array"
                   /\ UNCHANGED error
    /\ UNCHANGED <<args, rel_phase, antenna_magnitudes, antenna_phases,
                   int_antenna_magnitudes, int_antenna_phases,
                   int_antenna_objects, f_opened, file_exists, run,
                   first_run, call, threads,
                   watchdog>>

\* lines 1085-1091
IntArray ==
    /\ pc = "int_array"
    /\ IF args.int_antennas > 0
       THEN \E r \in {create_int_array(wire_number, args.int_antennas,
                         args.antenna_spacing, int_x_spacing, int_y_spacing,
                         int_z_spacing, int_antenna_magnitudes,
                         int_antenna_phases, args.log_periodic)} :
                /\ wire_number' = r.wire_number
                /\ IF r.raised # "none"
                   THEN /\ Raise(r.raised)
                        /\ UNCHANGED <<int_antenna_objects, deck, constructed>>
                   ELSE /\ int_antenna_objects' = r.antenna_objects
                        /\ constructed' = constructed
                               \o WireNumbers(ObjectWires(r.antenna_objects))
                        /\ deck' = deck \o GeometryOf(r.antenna_objects)
                        /\ pc' = "fence"
                        /\ UNCHANGED error
       ELSE /\ pc' = "fence"
            /\ UNCHANGED <<wire_number, int_antenna_objects, deck,
                           constructed, error>>
    /\ UNCHANGED <<args, rel_phase, antenna_magnitudes, antenna_phases,
                   int_antenna_magnitudes, int_antenna_phases,
                   main_antenna_objects, f_opened, file_exists, run,
                   first_run, call, threads,
                   watchdog>>

\* lines 1092-1101
Fence ==
    /\ pc = "fence"
    /\ IF ~args.without_fence
       THEN \E main_fence \in
                    {Reflector(wire_number,
                               (args.antennas + 1) * args.antenna_spacing,
                               reflector_spacing, reflector_wires, 0, 0, 0)} :
            \E int_fence \in
                    {IF args.int_antennas > 0
                     THEN Reflector(main_fence.wire_number,
                              (args.int_antennas + 1) * args.antenna_spacing,
                              reflector_spacing, reflector_wires,
                              int_x_spacing, int_y_spacing, int_z_spacing)
                     ELSE [reflector_wires |-> <<>>, raised |-> "none",
                           wire_number |-> main_fence.wire_number]} :
                /\ wire_number' = int_fence.wire_number
                /\ constructed' = constructed
                       \o WireNumbers(main_fence.reflector_wires)
                       \o WireNumbers(int_fence.reflector_wires)
                /\ deck' = deck \o repr_reflector(main_fence)
                                \o repr_reflector(int_fence)
       ELSE UNCHANGED <<wire_number, constructed, deck>>
    /\ pc' = "end_geometry"
    /\ UNCHANGED <<args, locals, f_opened, file_exists, error, run,
                   first_run, call, threads,
                   watchdog>>

\* end_geometry(); ground_plane_value is 1
end_geometry == <<Card("GE", 0, 0, <<1>>)>>

\* line 1102
EndGeometry ==
    /\ pc = "end_geometry"
    /\ deck' = deck \o end_geometry
    /\ pc' = "conductivity"
    /\ UNCHANGED <<wire_number, args, locals, f_opened, file_exists, error,
                   run, constructed, first_run, call, threads,
                   watchdog>>

\* range(0, wire_number)
conductivity_tags(wn) == [i \in 1..wn |-> i - 1]

\* lines 1103-1107
Conductivity ==
    /\ pc = "conductivity"
    /\ deck' = deck \o
           [i \in 1..Len(conductivity_tags(wire_number)) |->
               create_wire_conductivity(conductivity_tags(wire_number)[i],
                   IF args.log_periodic THEN aluminum_conductivity
                   ELSE copper_conductivity)]
    /\ pc' = "loads"
    /\ UNCHANGED <<wire_number, args, locals, f_opened, file_exists, error,
                   run, constructed, first_run, call, threads,
                   watchdog>>

\* lines 1108-1112
Loads ==
    /\ pc = "loads"
    /\ deck' = deck \o LoadsOf(main_antenna_objects)
                    \o (IF args.int_antennas > 0
                        THEN LoadsOf(int_antenna_objects) ELSE <<>>)
    /\ pc' = "control"
    /\ UNCHANGED <<wire_number, args, locals, f_opened, file_exists, error,
                   run, constructed, first_run, call, threads,
                   watchdog>>

\* lines 1113-1115: ground_card, extended_kernel_card, max_coupling_card
ControlCards ==
    /\ pc = "control"
    /\ deck' = deck \o <<Card("GN", 0, 0, <<2, 13, 5>>), Control("EK"),
                         Control("CP")>>
    /\ pc' = "main_excitations"
    /\ UNCHANGED <<wire_number, args, locals, f_opened, file_exists, error,
                   run, constructed, first_run, call, threads,
                   watchdog>>

\* lines 1116-1119
MainExcitations ==
    /\ pc = "main_excitations"
    /\ deck' = deck \o MainExcitationsOf(main_antenna_objects)
    /\ pc' = "int_excitations"
    /\ UNCHANGED <<wire_number, args, locals, f_opened, file_exists, error,
                   run, constructed, first_run, call, threads,
                   watchdog>>

\* lines 1120-1123
IntExcitations ==
    /\ pc = "int_excitations"
    /\ deck' = deck \o (IF args.int_antennas > 0
                        THEN IntExcitationsOf(int_antenna_objects) ELSE <<>>)
    /\ pc' = "final"
    /\ UNCHANGED <<wire_number, args, locals, f_opened, file_exists, error,
                   run, constructed, first_run, call, threads,
                   watchdog>>

\* lines 1124-1126: frequency_card, radiation_pattern_card, end_of_run_card
FinalCards ==
    /\ pc = "final"
    /\ deck' = deck \o <<Card("FR", 0, 0, <<1, 105, 5>>),
                         Card("RP", 0, 0, <<90, 361, 0, 0, 1, 1>>),
                         Control("EN")>>
    /\ pc' = "exit"
    /\ UNCHANGED <<wire_number, args, locals, f_opened, file_exists, error,
                   run, constructed, first_run, call, threads,
                   watchdog>>

\* line 1128: the with block is left, sys.exit()
Exit ==
    /\ pc = "exit"
    /\ pc' = "done"
    /\ UNCHANGED <<wire_number, args, locals, f_opened, file_exists, deck,
                   error, run, constructed, first_run, call, threads,
                   watchdog>>

\* The generation is repeated with the same arguments in the same process:
\* the module, and with it the global wire_number, stays loaded; the
\* output file is the one the run before left
Rerun ==
    /\ pc \in {"done", "failed"}
    /\ run < MaxRuns
    /\ run' = run + 1
    /\ first_run' = IF run = 1
                    THEN [pc |-> pc, constructed |-> constructed,
                          deck |-> deck, error |-> error]
                    ELSE first_run
    /\ pc' = "rel_phase"
    /\ rel_phase' = 0
    /\ antenna_magnitudes' = <<>>
    /\ antenna_phases' = <<>>
    /\ int_antenna_magnitudes' = <<>>
    /\ int_antenna_phases' = <<>>
    /\ main_antenna_objects' = <<>>
    /\ int_antenna_objects' = <<>>
    /\ f_opened' = FALSE
    /\ error' = "none"
    /\ constructed' = <<>>
    /\ UNCHANGED <<wire_number, args, file_exists, deck, call, threads,
                   watchdog>>

Next ==
    \/ ComputeRelPhase
    \/ ComputePhases
    \/ OpenFile
    \/ MainArray
    \/ IntArray
    \/ Fence
    \/ EndGeometry
    \/ Conductivity
    \/ Loads
    \/ ControlCards
    \/ MainExcitations
    \/ IntExcitations
    \/ FinalCards
    \/ Exit
    \/ Rerun

Spec == Init /\ [][Next]_vars

(***************************************************************************)
(* Direct calls of the library functions and constructors, one after the   *)
(* other in one process (the module imported, wire_number shared).         *)
(***************************************************************************)
\* the argparse defaults
DefaultArgs ==
    [antennas |-> 16, int_antennas |-> 4, beam_given |-> FALSE, beam |-> 0,
     circular_phase |-> FALSE, parabolic_phase |-> FALSE,
     broadened_beam |-> FALSE, without_fence |-> FALSE,
     antenna_spacing |-> antenna_spacing_default, log_periodic |-> FALSE]

InitLib ==
    /\ wire_number = 0
    /\ pc = "lib"
    /\ args = DefaultArgs
    /\ InitRun
    /\ file_exists = FALSE
    /\ deck = <<>>
    /\ run = 1
    /\ first_run = [pc |-> "none"]
    /\ call = NoCall
    /\ threads = NoThreads
    /\ watchdog = NoWatchdog

Called(name, num, magnitudes, phases, r, objects) ==
    [name |-> name, num_antennas |-> num, magnitudes |-> magnitudes,
     phases |-> phases, before |-> wire_number, raised |-> r.raised,
     objects |-> objects, after |-> r.wire_number]

LibUnchanged ==
    UNCHANGED <<pc, args, locals, f_opened, file_exists, deck, error, run,
                constructed, first_run, threads,
                   watchdog>>

\* create_main_array(num, spacing, magnitudes, phases, log_periodics)
CallCreateMainArray ==
    /\ pc = "lib"
    /\ wire_number <= MaxLibWires
    /\ \E num \in -1..MaxLen, nm \in 0..MaxLen, np \in 0..MaxLen,
          lp \in BOOLEAN, phase \in {0, 90000} :
         \E r \in {create_main_array(wire_number, num,
                       antenna_spacing_default, Repeat(nm, 1),
                       Repeat(np, phase), lp)} :
            /\ wire_number' = r.wire_number
            /\ call' = Called("create_main_array", num, Repeat(nm, 1),
                              Repeat(np, phase), r, r.antenna_objects)
    /\ LibUnchanged

\* create_int_array(num, spacing, x, y, z, magnitudes, phases, log_periodics)
CallCreateIntArray ==
    /\ pc = "lib"
    /\ wire_number <= MaxLibWires
    /\ \E num \in -1..MaxLen, nm \in 0..MaxLen, np \in 0..MaxLen,
          lp \in BOOLEAN, phase \in {0, 90000} :
         \E r \in {create_int_array(wire_number, num,
                       antenna_spacing_default, int_x_spacing, int_y_spacing,
                       int_z_spacing, Repeat(nm, 0), Repeat(np, phase), lp)} :
            /\ wire_number' = r.wire_number
            /\ call' = Called("create_int_array", num, Repeat(nm, 0),
                              Repeat(np, phase), r, r.antenna_objects)
    /\ LibUnchanged

\* YAGI(global_x=..., current_real=..., current_imag=...)
CallYAGI ==
    /\ pc = "lib"
    /\ wire_number <= MaxLibWires
    /\ \E x \in {0, antenna_spacing_default}, cur \in {0, One} :
         \E r \in {YAGI(wire_number, x, 0, 0, cur, 0)} :
            /\ wire_number' = r.wire_number
            /\ call' = Called("YAGI", 1, <<cur>>, <<0>>, r, <<r>>)
    /\ LibUnchanged

\* TTFD(mid_width=..., top_width=..., global_x=..., current_real=...)
CallTTFD ==
    /\ pc = "lib"
    /\ wire_number <= MaxLibWires
    /\ \E mid_width \in {12 * Metre, 8 * Metre, 6 * Metre},
          x \in {0, antenna_spacing_default}, cur \in {0, One} :
         \E r \in {TTFD(wire_number,
                         [TTFD_defaults EXCEPT !.mid_width = mid_width],
                         x, 0, 0, cur, 0)} :
            /\ wire_number' = r.wire_number
            /\ call' = [name |-> "TTFD",
                        dims |-> [TTFD_defaults EXCEPT
                                     !.mid_width = mid_width],
                        global_x |-> x, before |-> wire_number,
                        raised |-> r.raised, objects |-> <<r>>,
                        after |-> r.wire_number]
    /\ LibUnchanged

\* Reflector(length_m, spacing_m, num_wires=..., global_y=...)
CallReflector ==
    /\ pc = "lib"
    /\ wire_number <= MaxLibWires
    /\ \E num_wires \in {0, reflector_wires}, y \in {0, int_y_spacing},
          length_m \in {antenna_spacing_default, 17 * antenna_spacing_default} :
         \E r \in {Reflector(wire_number, length_m, reflector_spacing,
                              num_wires, 0, y, 0)} :
            /\ wire_number' = r.wire_number
            /\ call' = [name |-> "Reflector", num_wires |-> num_wires,
                        length_m |-> length_m, before |-> wire_number,
                        raised |-> r.raised, objects |-> r.reflector_wires,
                        after |-> r.wire_number]
    /\ LibUnchanged

NextLib ==
    \/ CallCreateMainArray
    \/ CallCreateIntArray
    \/ CallYAGI
    \/ CallTTFD
    \/ CallReflector

SpecLib == InitLib /\ [][NextLib]_vars

(***************************************************************************)
(* Direct calls of the Wire constructor and of the methods of a wire       *)
(***************************************************************************)
\* the wire lengths tried: around every multiple of the segment length
WireLengths ==
    {l \in {k * segment_length + d : k \in 0..MaxSegments, d \in {-1, 0, 1}} :
        l >= 0}

\* the second endpoint of the wires tried, relative to the first, as
\* <<x, z>>: along the x axis, and two oblique wires
WireEnds ==
    {<<l, 0>> : l \in WireLengths}
        \cup {<<12 * 1000, 16 * 1000>>, <<18 * 1000, 24 * 1000>>}

\* Wire(x1, y1, z1, x2, y2, z2, radius, segments)
CallWire ==
    /\ pc = "lib"
    /\ wire_number <= MaxLibWires
    /\ \E x1 \in {0, -Metre}, end \in WireEnds, segments \in {0, 13} :
         \E w \in {Wire(wire_number, x1, 0, 0, x1 + end[1], 0, end[2],
                         awg13_radius, segments)} :
            /\ wire_number' = w.wire_number
            /\ call' = [name |-> "Wire", segments |-> segments,
                        length |-> wire_length(x1, 0, 0, x1 + end[1], 0,
                                               end[2]),
                        before |-> wire_number, raised |-> "none",
                        wire |-> w, after |-> w.wire_number]
    /\ LibUnchanged

\* wire.rotate(...), wire.rotate_x_axis(...), ... on the wire the last call
\* returned or left
CallRotate ==
    /\ pc = "lib"
    /\ call.name \in {"Wire", "rotate", "rotate_x_axis", "rotate_y_axis",
                      "rotate_z_axis"}
    /\ \E method \in {"rotate", "rotate_x_axis", "rotate_y_axis",
                       "rotate_z_axis"}, angle \in {0, 90} :
         \E r \in {CASE method = "rotate" -> rotate(call.wire, angle, 0, angle)
                     [] method = "rotate_x_axis" ->
                            rotate_x_axis(call.wire, angle)
                     [] method = "rotate_y_axis" ->
                            rotate_y_axis(call.wire, angle)
                     [] OTHER -> rotate_z_axis(call.wire, angle)} :
            call' = [name |-> method, angle |-> angle,
                     receiver |-> call.wire, before |-> wire_number,
                     raised |-> r.raised, wire |-> r.wire,
                     after |-> wire_number]
    /\ UNCHANGED wire_number
    /\ LibUnchanged

NextWire ==
    \/ CallWire
    \/ CallRotate

SpecWire == InitLib /\ [][NextWire]_vars

(***************************************************************************)
(* Direct constructions of the cards of a source and of a transmission     *)
(* line                                                                    *)
(***************************************************************************)
\* Source(tag, segment, excitation_real, excitation_imag, current_source)
CallSource ==
    /\ pc = "lib"
    /\ \E tag \in 1..MaxLen, segment \in {1, 7},
          excitation_real \in {-One, 0, Tiny, One},
          excitation_imag \in {-One, 0, One}, current_source \in BOOLEAN :
         call' = [name |-> "Source", tag |-> tag, segment |-> segment,
                  excitation_real |-> excitation_real,
                  excitation_imag |-> excitation_imag,
                  current_source |-> current_source,
                  card |-> Source(tag, segment, excitation_real,
                                  excitation_imag, current_source)]
    /\ UNCHANGED wire_number
    /\ LibUnchanged

\* TransmissionLine(tag1, segment1, tag2, segment2, crossed, impedance,
\* length)
CallTransmissionLine ==
    /\ pc = "lib"
    /\ \E tag1 \in 1..MaxLen, tag2 \in 1..MaxLen, segment \in {1, 7},
          crossed \in BOOLEAN, impedance \in {50, 300}, length \in {0, Metre} :
         call' = [name |-> "TransmissionLine", tag1 |-> tag1,
                  segment1 |-> segment, tag2 |-> tag2,
                  segment2 |-> segment + 1, crossed |-> crossed,
                  impedance |-> impedance, length |-> length,
                  card |-> TransmissionLine(tag1, segment, tag2, segment + 1,
                                            crossed, impedance, length)]
    /\ UNCHANGED wire_number
    /\ LibUnchanged

NextCards ==
    \/ CallSource
    \/ CallTransmissionLine

SpecCards == InitLib /\ [][NextCards]_vars

(***************************************************************************)
(* Direct calls of calculate_broadened_phase                               *)
(***************************************************************************)
\* calculate_broadened_phase(frequency_hz, antenna_spacing_m, num_antennas,
\* num_sub_arrays).  range(0, num_sub_arrays / 2) raises TypeError where
\* `/` is true division and runs where it is integer division: the outcome
\* is that of the interpreter the module is run with
CallBroadenedPhase ==
    /\ pc = "lib"
    /\ \E num_antennas \in -1..(2 * MaxAntennas),
          num_sub_arrays \in 1..MaxSubArrays,
          antenna_spacing_m \in Spacings :
         \E r \in {calculate_broadened_phase(antenna_spacing_m, num_antennas,
                                              num_sub_arrays)} :
            \/ call' = [name |-> "calculate_broadened_phase",
                        antenna_spacing_m |-> antenna_spacing_m,
                        num_antennas |-> num_antennas,
                        num_sub_arrays |-> num_sub_arrays,
                        raised |-> "TypeError", phases |-> <<>>]
            \/ call' = [name |-> "calculate_broadened_phase",
                        antenna_spacing_m |-> antenna_spacing_m,
                        num_antennas |-> num_antennas,
                        num_sub_arrays |-> num_sub_arrays,
                        raised |-> r.raised, phases |-> r.phases]
    /\ UNCHANGED wire_number
    /\ LibUnchanged

NextPhase == CallBroadenedPhase

SpecPhase == InitLib /\ [][NextPhase]_vars

(***************************************************************************)
(* Two generations running as threads of one process.  Each executes      *)
(* Wire.__init__ once for every wire of its elements and fences.  The      *)
(* statement `wire_number += 1` reads the global and writes it back, and   *)
(* the wire_structure dictionary reads the global once more: a thread      *)
(* switch can fall between any two of these steps.                         *)
(***************************************************************************)
Threads == {1, 2}

\* the Wire constructions of one generation that are followed
ThreadWires == MaxThreadWires

InitConc ==
    /\ wire_number = 0
    /\ pc = "threads"
    /\ args = DefaultArgs
    /\ InitRun
    /\ file_exists = FALSE
    /\ deck = <<>>
    /\ run = 1
    /\ first_run = [pc |-> "none"]
    /\ call = NoCall
    /\ threads = [t \in Threads |->
                     [pc |-> "load", loaded |-> 0, wire_numbers |-> <<>>]]
    /\ watchdog = NoWatchdog

ConcUnchanged ==
    UNCHANGED <<pc, args, locals, f_opened, file_exists, deck, error, run,
                constructed, first_run, call, watchdog>>

\* wire_number += 1: the global is read
WireLoad(t) ==
    /\ threads[t].pc = "load"
    /\ threads' = [threads EXCEPT ![t].pc = "store",
                                  ![t].loaded = wire_number]
    /\ UNCHANGED wire_number
    /\ ConcUnchanged

\* wire_number += 1: the sum is written to the global
WireStore(t) ==
    /\ threads[t].pc = "store"
    /\ wire_number' = next_wire_number(threads[t].loaded)
    /\ threads' = [threads EXCEPT ![t].pc = "read"]
    /\ ConcUnchanged

\* self.wire_structure = {'wire_number': wire_number, ...}
WireRead(t) ==
    /\ threads[t].pc = "read"
    /\ threads' = [threads EXCEPT
                      ![t].wire_numbers = Append(@, wire_number),
                      ![t].pc = IF Len(threads[t].wire_numbers) + 1
                                   >= ThreadWires
                                THEN "done" ELSE "load"]
    /\ UNCHANGED wire_number
    /\ ConcUnchanged

NextConc ==
    \/ \E t \in Threads : WireLoad(t)
    \/ \E t \in Threads : WireStore(t)
    \/ \E t \in Threads : WireRead(t)

SpecConc == InitConc /\ [][NextConc]_vars

(***************************************************************************)
(* The watchdog src/restart_borealis.py (the __main__ block).  Times are   *)
(* whole seconds counted from the start of the UTC day, as                 *)
(* strftime("%s") yields whole seconds.  watchdog.done lists what the run  *)
(* has done to the outside: the mail sent, the scripts launched and        *)
(* finished, the wait.                                                     *)
(***************************************************************************)
\* parser.add_argument('-r', '--restart-after-seconds', type=int, ...)
RestartAfter == 0..MaxSeconds

Times == 0..MaxSeconds

Max(S) == CHOOSE x \in S : \A y \in S : y <= x

\* the start of the day when no file was written today, else the
\* modification time of the newest file
new_file_write_time(today_data_files) ==
    IF today_data_files = {} THEN 0 ELSE Max(today_data_files)

\* if float(last_data_write) < float(restart_after_seconds)
data_is_current_strict(last_data_write, restart_after_seconds) ==
    last_data_write < restart_after_seconds

\* if float(last_data_write) <= float(restart_after_seconds)
data_is_current(last_data_write, restart_after_seconds) ==
    last_data_write <= restart_after_seconds

InitWatchdog ==
    /\ wire_number = 0
    /\ pc = "watchdog"
    /\ args = DefaultArgs
    /\ InitRun
    /\ file_exists = FALSE
    /\ deck = <<>>
    /\ run = 1
    /\ first_run = [pc |-> "none"]
    /\ call = NoCall
    /\ threads = NoThreads
    /\ \E r \in RestartAfter, now \in Times, files \in SUBSET Times :
          watchdog = [pc |-> "borealis_path",
                      restart_after_seconds |-> r,
                      now_utc_seconds |-> now,
                      today_data_files |-> files,
                      last_data_write |-> 0,
                      checked |-> FALSE,
                      error |-> FALSE,
                      done |-> <<>>,
                      raised |-> "none",
                      status |-> -1]

WatchdogUnchanged ==
    UNCHANGED <<wire_number, pc, args, locals, f_opened, file_exists, deck,
                error, run, constructed, first_run, call, threads>>

\* sys.exit(status)
exit(status) == [watchdog EXCEPT !.pc = "exit", !.status = status]

\* an exception nothing catches: the interpreter ends with status 1
uncaught(exception) ==
    [watchdog EXCEPT !.pc = "exit", !.status = 1, !.raised = exception]

Did(what) == [watchdog EXCEPT !.done = Append(@, what)]

\* if not os.path.exists(borealis_path): sys.exit(1)
CheckBorealisPath ==
    /\ watchdog.pc = "borealis_path"
    /\ \E exists \in BOOLEAN :
          watchdog' = IF exists THEN [watchdog EXCEPT !.pc = "config"]
                      ELSE exit(1)
    /\ WatchdogUnchanged

\* the configuration is opened and parsed: IOError is caught and ends the
\* run with status 1, a file that is no JSON object with the key
\* data_directory raises what nothing catches
ReadConfig ==
    /\ watchdog.pc = "config"
    /\ \E outcome \in {"ok", "IOError", "ValueError", "KeyError"} :
          watchdog' = IF outcome = "ok"
                          THEN [watchdog EXCEPT !.pc = "data_check"]
                      ELSE IF outcome = "IOError" THEN exit(1)
                      ELSE uncaught(outcome)
    /\ WatchdogUnchanged

\* last_data_write = now_utc_seconds - new_file_write_time, compared with
\* restart_after_seconds
DataCheck ==
    /\ watchdog.pc = "data_check"
    /\ LET last_data_write ==
               watchdog.now_utc_seconds
                   - new_file_write_time(watchdog.today_data_files)
       IN  watchdog' =
               IF data_is_current(last_data_write,
                                  watchdog.restart_after_seconds)
               THEN [watchdog EXCEPT !.pc = "exit", !.status = 0,
                                     !.checked = TRUE,
                                     !.last_data_write = last_data_write]
               ELSE [watchdog EXCEPT !.pc = "send_email",
                                     !.checked = TRUE,
                                     !.last_data_write = last_data_write]
    /\ WatchdogUnchanged

\* send_email(last_data_write): subprocess.call waits for the mail command
\* and its result is not looked at
SendEmail ==
    /\ watchdog.pc = "send_email"
    /\ watchdog' = [Did("send_email") EXCEPT !.pc = "stop_borealis"]
    /\ WatchdogUnchanged

\* stop_borealis = subprocess.Popen(".../stop_radar.sh"): the script is
\* launched, or Popen raises OSError (no such file, not executable)
StopBorealis ==
    /\ watchdog.pc = "stop_borealis"
    /\ \E launched \in BOOLEAN :
          watchdog' = IF launched
                          THEN [Did("stop_radar.sh") EXCEPT
                                   !.pc = "stop_communicate"]
                      ELSE uncaught("OSError")
    /\ WatchdogUnchanged

\* output, error = stop_borealis.communicate(): waits for the script to
\* end; what it wrote to stderr is printed and nothing else
StopCommunicate ==
    /\ watchdog.pc = "stop_communicate"
    /\ \E error_output \in BOOLEAN :
          watchdog' = [Did("stop_radar.sh ended") EXCEPT
                          !.pc = "sleep", !.error = error_output]
    /\ WatchdogUnchanged

\* time.sleep(5)
Sleep ==
    /\ watchdog.pc = "sleep"
    /\ watchdog' = [Did("sleep") EXCEPT !.pc = "chdir"]
    /\ WatchdogUnchanged

\* os.chdir(script_directory): raises OSError when /home/radar/borealis
\* is no directory
Chdir ==
    /\ watchdog.pc = "chdir"
    /\ \E changed \in BOOLEAN :
          watchdog' = IF changed
                          THEN [watchdog EXCEPT !.pc = "start_command"]
                      ELSE uncaught("OSError")
    /\ WatchdogUnchanged

\* process = subprocess.Popen(start_command)
StartCommand ==
    /\ watchdog.pc = "start_command"
    /\ \E launched \in BOOLEAN :
          watchdog' = IF launched
                          THEN [Did("steamed_hams.py") EXCEPT
                                   !.pc = "start_communicate"]
                      ELSE uncaught("OSError")
    /\ WatchdogUnchanged

\* stdout, stderr = process.communicate(); the output is printed;
\* sys.exit(0)
StartCommunicate ==
    /\ watchdog.pc = "start_communicate"
    /\ watchdog' = [Did("steamed_hams.py ended") EXCEPT
                       !.pc = "exit", !.status = 0]
    /\ WatchdogUnchanged

NextWatchdog ==
    \/ CheckBorealisPath
    \/ ReadConfig
    \/ DataCheck
    \/ SendEmail
    \/ StopBorealis
    \/ StopCommunicate
    \/ Sleep
    \/ Chdir
    \/ StartCommand
    \/ StartCommunicate

SpecWatchdog == InitWatchdog /\ [][NextWatchdog]_vars

(***************************************************************************)
(* Properties                                                              *)
(***************************************************************************)
CardsOf(d, mnemonic) == SelectSeq(d, LAMBDA c : c.card = mnemonic)

Tags(cards) == [i \in 1..Len(cards) |-> cards[i].tag]

\* C1: within one generation run every Wire construction yields a wire
\* number strictly greater than that of every wire built before it in the
\* run, so no two wires of the run share a wire number
C1_WireNumbersIncrease ==
    \A i, j \in 1..Len(constructed) :
        i < j => constructed[i] < constructed[j]

C1_Witness ==
    /\ pc = "done"
    /\ Len(main_antenna_objects) >= 2
    /\ Len(int_antenna_objects) >= 1
    /\ ~args.without_fence
    /\ Len(constructed) > 2 * reflector_wires

\* C2: a second generation run in the same process with the same arguments
\* gives corresponding wires the wire numbers of the first run and writes
\* the same deck
C2_RerunReproduces ==
    (run = 2 /\ pc = "done" /\ first_run.pc = "done")
        => (constructed = first_run.constructed /\ deck = first_run.deck)

\* C3: after the end-of-geometry card the deck holds exactly one LD 5 card
\* for each wire number assigned in the run, for no other tag, in ascending
\* order
C3_ConductivityPerWire ==
    (pc \in {"loads", "control", "main_excitations", "int_excitations",
             "final", "exit", "done"})
        => Tags(CardsOf(deck, "LD5")) = constructed

\* C4: every comment block comes after the excitation and transmission-line
\* cards of all elements and before the frequency card, which is followed
\* by the radiation-pattern card and the end-of-run card
C4_CommentsAfterAllExcitations ==
    f_opened =>
        /\ \A i, j \in 1..Len(deck) :
              (deck[i].card = "CM" /\ deck[j].card \in {"EX6", "EX0", "TL"})
                  => j < i
        /\ \A i, j \in 1..Len(deck) :
              (deck[i].card = "CM" /\ deck[j].card \in {"FR", "RP", "EN"})
                  => i < j
        /\ \A i \in 1..Len(deck) :
              deck[i].card = "FR" =>
                  (i + 1 <= Len(deck) => deck[i + 1].card = "RP")
        /\ \A i \in 1..Len(deck) :
              deck[i].card = "RP" =>
                  (i + 1 <= Len(deck) => deck[i + 1].card = "EN")

\* the place of a card's section in the order of C5
SectionRank(c) ==
    CASE c.card = "GW" -> 1
      [] c.card = "GE" -> 2
      [] c.card = "LD5" -> 3
      [] c.card = "LD4" -> 4
      [] c.card = "GN" -> 5
      [] c.card = "EK" -> 6
      [] c.card = "CP" -> 7
      [] c.card \in {"EX6", "EX0", "TL", "CM"} -> 8
      [] OTHER -> 9

\* C5: the sections of the deck come in the order main-array geometry,
\* interferometer geometry, fence geometry (only with the fence enabled),
\* GE, conductivity cards, LD 4 loads, GN, EK, CP, and only then EX and TL
\* cards; no GW card follows GE
C5_SectionOrder ==
    f_opened =>
        LET gw == CardsOf(deck, "GW")
            mw == ObjectWires(main_antenna_objects)
            iw == ObjectWires(int_antenna_objects)
        IN  /\ \A i \in 1..(Len(deck) - 1) :
                  SectionRank(deck[i]) <= SectionRank(deck[i + 1])
            /\ Len(gw) >= Len(mw) + Len(iw)
            /\ \A k \in 1..Len(gw) :
                  IF k <= Len(mw) THEN gw[k] = repr_wire(mw[k])
                  ELSE IF k <= Len(mw) + Len(iw)
                  THEN gw[k] = repr_wire(iw[k - Len(mw)])
                  ELSE /\ ~args.without_fence
                       /\ \A n \in 1..Len(mw) : mw[n].wire_number # gw[k].tag
                       /\ \A n \in 1..Len(iw) : iw[n].wire_number # gw[k].tag
            /\ (pc \in {"conductivity", "loads", "control",
                        "main_excitations", "int_excitations", "final",
                        "exit", "done"})
                  => Len(CardsOf(deck, "GE")) = 1
            /\ (pc \in {"main_excitations", "int_excitations", "final",
                        "exit", "done"})
                  => /\ Len(CardsOf(deck, "CP")) = 1
                     /\ Len(CardsOf(deck, "LD4"))
                            = Len(LoadsOf(main_antenna_objects))
                              + Len(LoadsOf(int_antenna_objects))

C5_Witness ==
    /\ pc = "done"
    /\ Len(main_antenna_objects) >= 2
    /\ Len(int_antenna_objects) >= 1
    /\ ~args.without_fence
    /\ ~args.log_periodic
    /\ Len(CardsOf(deck, "LD4")) >= 6
    /\ Len(CardsOf(deck, "EX6")) >= 3

\* C6: a generation that fails has not created or overwritten the output
\* file
C6_NoFileOnFailure == pc = "failed" => ~f_opened

C8_MismatchBuildsNothing ==
    (/\ call.name \in {"create_main_array", "create_int_array"}
     /\ \/ Len(call.magnitudes) # call.num_antennas
        \/ Len(call.phases) # call.num_antennas)
        => /\ call.raised = "ValueError"
           /\ call.objects = <<>>
           /\ call.after = call.before
           /\ wire_number = call.before

C8_Witness ==
    /\ call.name = "create_int_array"
    /\ call.num_antennas = 2
    /\ Len(call.magnitudes) = 2
    /\ Len(call.phases) = 1
    /\ call.raised = "ValueError"
    /\ call.before > 0

\* C9: with beam 0 selected, by default or explicitly, the steering phase
\* is 0 and every element of both arrays gets phase 0
C9_BeamZeroNoSteering ==
    (args.beam = 0 /\ pc \notin {"rel_phase", "phases"})
        => /\ rel_phase = 0
           /\ (~args.broadened_beam =>
                 /\ \A i \in 1..Len(antenna_phases) : antenna_phases[i] = 0
                 /\ \A i \in 1..Len(int_antenna_phases) :
                       int_antenna_phases[i] = 0)

\* C10: constructing a Yagi element succeeds and puts its one excitation on
\* the middle segment of the driven-element wire
C10_YagiExcitesDriven ==
    call.name = "YAGI" =>
        /\ call.raised = "none"
        /\ Len(call.objects[1].excitation) = 1
        /\ LET driven == call.objects[1].wires[Len(call.objects[1].wires)]
           IN  /\ call.objects[1].excitation[1].tag = driven.wire_number
               /\ call.objects[1].excitation[1].seg = get_mid_segment(driven)

\* C11: under every interleaving of two generations running as threads,
\* each generation's wires get distinct wire numbers, the ones the
\* generation gets when it runs alone
C11_ThreadsDoNotInterfere ==
    \A t \in DOMAIN threads :
        threads[t].pc = "done" =>
            /\ threads[t].wire_numbers
                   = [i \in 1..ThreadWires |-> wire_number_after(0, i)]
            /\ \A i, j \in 1..Len(threads[t].wire_numbers) :
                   i # j => threads[t].wire_numbers[i]
                               # threads[t].wire_numbers[j]

\* C12: a generated deck holds exactly one GW card for each wire built in
\* the run, and exactly one EN card, which is its last card
C12_OneGWPerWireOneEN ==
    pc \in {"exit", "done"} =>
        /\ Tags(CardsOf(deck, "GW")) = constructed
        /\ Len(CardsOf(deck, "EN")) = 1
        /\ deck[Len(deck)].card = "EN"

C12_Witness ==
    /\ pc = "done"
    /\ run = 2
    /\ ~args.without_fence
    /\ args.log_periodic
    /\ Len(main_antenna_objects) >= 1
    /\ Len(int_antenna_objects) >= 1
    /\ Len(CardsOf(deck, "GW")) >= 2 * reflector_wires + 2 * 10

\* C13: for every positive wire length the automatically computed segment
\* count is an odd integer >= 1, and it does not decrease when the wire
\* length grows
C13_AutoSegmentsOddMonotone ==
    (call.name = "Wire" /\ call.segments = 0 /\ call.length > 0) =>
        /\ call.wire.segments >= 1
        /\ call.wire.segments % 2 = 1
        /\ call.wire.segments \in {Trunc(call.length, segment_length),
                                    Trunc(call.length, segment_length) + 1}
        /\ \A shorter \in WireLengths :
               (0 < shorter /\ shorter <= call.length)
                   => auto_segments(shorter) <= call.wire.segments

C13_Witness ==
    /\ call.name = "Wire"
    /\ call.segments = 0
    /\ call.length = MaxSegments * segment_length
    /\ call.wire.segments = MaxSegments + 1
    /\ call.before > 0

\* C14: constructing a wire of length zero or less with automatic
\* segmentation raises an error instead of returning a wire
C14_ZeroLengthWireFails ==
    (call.name = "Wire" /\ call.segments = 0 /\ call.length <= 0) =>
        (call.raised # "none" /\ call.after = call.before)

\* C20: every rotation of a wire raises the not-supported error and leaves
\* endpoints, radius, segment count and wire number of the wire unchanged
C20_RotationsFailWireUnchanged ==
    call.name \in {"rotate", "rotate_x_axis", "rotate_y_axis",
                   "rotate_z_axis"} =>
        /\ call.raised = "NotImplementedError"
        /\ call.wire = call.receiver
        /\ wire_number = call.before

C20_Witness ==
    /\ call.name = "rotate"
    /\ call.angle = 90
    /\ call.raised = "NotImplementedError"
    /\ call.receiver.z2 # call.receiver.z1
    /\ call.receiver.wire_number > 1

\* C15: constructing a TTFD element when the wire counter is k builds
\* exactly seven wires numbered k+1..k+7 (top-left, top, top-right, middle,
\* bottom-left, bottom, bottom-right), exactly two loads, on the middle
\* segments of the top and of the bottom wire, and exactly one excitation,
\* on the middle segment of the middle wire
C15_TTFDSevenWires ==
    call.name = "TTFD" =>
        LET e == call.objects[1]
            d == call.dims
            k == call.before
            left == call.global_x - d.mid_width \div 2
            right == call.global_x + d.mid_width \div 2
            topleft == call.global_x - d.top_width \div 2
            topright == call.global_x + d.top_width \div 2
            up == d.height + d.wire_spacing
            down == d.height - d.wire_spacing
            Ends(w) == <<w.x1, w.z1, w.x2, w.z2>>
        IN  /\ call.raised = "none"
            /\ Len(e.wires) = 7
            /\ \A i \in 1..7 : e.wires[i].wire_number = k + i
            /\ call.after = k + 7
            /\ wire_number = k + 7
            /\ Ends(e.wires[1]) = <<left, d.height, topleft, up>>
            /\ Ends(e.wires[2]) = <<topleft, up, topright, up>>
            /\ Ends(e.wires[3]) = <<right, d.height, topright, up>>
            /\ Ends(e.wires[4]) = <<left, d.height, right, d.height>>
            /\ Ends(e.wires[5]) = <<left, d.height, topleft, down>>
            /\ Ends(e.wires[6]) = <<topleft, down, topright, down>>
            /\ Ends(e.wires[7]) = <<right, d.height, topright, down>>
            /\ Len(e.loads) = 2
            /\ e.loads[1].card = "LD4"
            /\ e.loads[1].tag = k + 2
            /\ 2 * e.loads[1].seg = e.wires[2].segments + 1
            /\ e.loads[1].fields[1] = e.loads[1].seg
            /\ e.loads[2].card = "LD4"
            /\ e.loads[2].tag = k + 6
            /\ 2 * e.loads[2].seg = e.wires[6].segments + 1
            /\ e.loads[2].fields[1] = e.loads[2].seg
            /\ Len(e.excitation) = 1
            /\ e.excitation[1].tag = k + 4
            /\ 2 * e.excitation[1].seg = e.wires[4].segments + 1

C15_Witness ==
    /\ call.name = "TTFD"
    /\ call.before > 0
    /\ call.dims = TTFD_defaults
    /\ call.global_x # 0
    /\ call.raised = "none"
    /\ call.objects[1].wires[4].segments > 1

\* C16: constructing a TTFD element with mid_width <= top_width raises a
\* configuration error and builds no wire
C16_TTFDWidthsChecked ==
    (call.name = "TTFD" /\ call.dims.mid_width <= call.dims.top_width) =>
        /\ call.raised # "none"
        /\ call.after = call.before
        /\ call.objects[1].wires = <<>>

\* C17: a LogPeriodic element has exactly ten wires, one excitation on the
\* middle segment of its first wire, the shortest, and exactly nine
\* transmission lines, the i-th from the middle segment of wire i to the
\* middle segment of wire i+1, each crossed (negative impedance in its card)
C17_LogPeriodicLines ==
    \A objs \in {main_antenna_objects, int_antenna_objects} :
        \A n \in 1..Len(objs) :
            objs[n].kind = "LogPeriodic" =>
                LET e == objs[n]
                    Length(w) == wire_length(w.x1, w.y1, w.z1,
                                             w.x2, w.y2, w.z2)
                IN  /\ Len(e.wires) = 10
                    /\ Len(e.excitation) = 1
                    /\ e.excitation[1].tag = e.wires[1].wire_number
                    /\ 2 * e.excitation[1].seg = e.wires[1].segments + 1
                    /\ \A j \in 2..10 :
                           Length(e.wires[1]) < Length(e.wires[j])
                    /\ Len(e.transmissionlines) = 9
                    /\ \A i \in 1..9 :
                           LET tl == e.transmissionlines[i]
                           IN  /\ tl.card = "TL"
                               /\ tl.tag = e.wires[i].wire_number
                               /\ 2 * tl.seg = e.wires[i].segments + 1
                               /\ tl.fields[1] = e.wires[i + 1].wire_number
                               /\ 2 * tl.fields[2]
                                      = e.wires[i + 1].segments + 1
                               /\ tl.fields[3] < 0

C17_Witness ==
    /\ pc = "done"
    /\ args.log_periodic
    /\ Len(main_antenna_objects) >= 2
    /\ Len(int_antenna_objects) >= 2
    /\ main_antenna_objects[2].kind = "LogPeriodic"
    /\ Len(CardsOf(deck, "TL")) >= 4 * 9

C21_SourceZeroNudged ==
    call.name = "Source" =>
        /\ call.card.tag = call.tag
        /\ call.card.seg = call.segment
        /\ IF call.current_source
           THEN /\ call.card.card = "EX6"
                /\ call.card.fields[1] # 0
                /\ call.card.fields[2] # 0
                /\ call.card.fields[1]
                       = (IF call.excitation_real = 0 THEN Tiny
                          ELSE call.excitation_real)
                /\ call.card.fields[2]
                       = (IF call.excitation_imag = 0 THEN Tiny
                          ELSE call.excitation_imag)
           ELSE /\ call.card.card = "EX0"
                /\ call.card.fields
                       = <<call.excitation_real, call.excitation_imag>>

C21_Witness ==
    /\ call.name = "Source"
    /\ call.current_source
    /\ call.excitation_real = One
    /\ call.excitation_imag = 0
    /\ call.card.fields = <<One, Tiny>>

\* C27: a transmission line created with the crossed flag emits the
\* negation of the given impedance in its TL card, one created without it
\* emits the impedance unchanged; tags, segments and length are the same in
\* both cases
C27_CrossedNegatesImpedance ==
    call.name = "TransmissionLine" =>
        /\ call.card.card = "TL"
        /\ call.card.tag = call.tag1
        /\ call.card.seg = call.segment1
        /\ call.card.fields[1] = call.tag2
        /\ call.card.fields[2] = call.segment2
        /\ call.card.fields[4] = call.length
        /\ call.card.fields[3]
               = (IF call.crossed THEN -call.impedance ELSE call.impedance)

C27_Witness ==
    /\ call.name = "TransmissionLine"
    /\ call.crossed
    /\ call.impedance = 300
    /\ call.card.fields[3] = -300
    /\ call.tag1 # call.tag2

\* C22: every element variant (TTFD, LogPeriodic, YAGI) gives geometry,
\* loads, excitations, transmission lines and comment block, and what a
\* variant does not have is empty: the transmission lines of a TTFD, the
\* loads of a LogPeriodic, the loads and the transmission lines of a YAGI
C22_UnusedOperationsEmpty ==
    call.name \in {"create_main_array", "create_int_array", "TTFD", "YAGI"} =>
        \A n \in 1..Len(call.objects) :
            LET e == call.objects[n]
            IN  /\ e.kind \in {"TTFD", "LogPeriodic", "YAGI"}
                /\ Len(repr_geometry(e)) = Len(e.wires)
                /\ repr_comment_string(e) = <<Comment(e.kind)>>
                /\ e.kind = "TTFD" =>
                       /\ repr_transmissionlines(e) = <<>>
                       /\ Len(repr_loads(e)) = 2
                       /\ Len(repr_excitations(e)) = 1
                /\ e.kind = "LogPeriodic" =>
                       /\ repr_loads(e) = <<>>
                       /\ Len(repr_transmissionlines(e)) = 9
                       /\ Len(repr_excitations(e)) = 1
                /\ e.kind = "YAGI" =>
                       /\ repr_loads(e) = <<>>
                       /\ repr_transmissionlines(e) = <<>>

C22_Witness ==
    /\ call.name = "create_int_array"
    /\ call.raised = "none"
    /\ Len(call.objects) = 2
    /\ call.objects[1].kind = "LogPeriodic"
    /\ repr_loads(call.objects[2]) = <<>>
    /\ call.before >= 7

\* C23: calculate_broadened_phase called with a number of elements that is
\* not a multiple of the number of sub-arrays raises the configuration
\* error and returns no phase list
C23_IndivisibleElementsRejected ==
    (/\ call.name = "calculate_broadened_phase"
     /\ call.num_antennas % call.num_sub_arrays # 0)
        => (call.raised = "ValueError" /\ call.phases = <<>>)

\* C24: for a number of elements that is a multiple of an even number of
\* sub-arrays, calculate_broadened_phase returns exactly that many phases,
\* the second half mirroring the first: the phase at position i equals the
\* phase at position num_elements-1-i
C24_BroadenedPhasesMirrored ==
    (/\ call.name = "calculate_broadened_phase"
     /\ call.num_antennas > 0
     /\ call.num_sub_arrays % 2 = 0
     /\ call.num_antennas % call.num_sub_arrays = 0
     /\ \A m \in 0..(call.num_sub_arrays \div 2 - 1) :
           broadened_acos_in_domain(m, call.antenna_spacing_m,
                                    call.num_antennas, call.num_sub_arrays))
        => /\ call.raised = "none"
           /\ Len(call.phases) = call.num_antennas
           /\ \A i \in 1..Len(call.phases) :
                  call.phases[i] = call.phases[Len(call.phases) + 1 - i]

C26_ArrayCentred ==
    LET reference ==
            IF args.log_periodic THEN LogPeriodic(0, 0, 0, 0, One, 0)
            ELSE TTFD(0, TTFD_defaults, 0, 0, 0, One, 0)
        Position(i, n) ==
            i * args.antenna_spacing - Trunc((n - 1) * args.antenna_spacing, 2)
        Placed(e, x, y, z) ==
            \A j \in 1..Len(e.wires) :
                /\ e.wires[j].x1 = reference.wires[j].x1 + x
                /\ e.wires[j].x2 = reference.wires[j].x2 + x
                /\ e.wires[j].y1 = reference.wires[j].y1 + y
                /\ e.wires[j].y2 = reference.wires[j].y2 + y
                /\ e.wires[j].z1 = reference.wires[j].z1 + z
                /\ e.wires[j].z2 = reference.wires[j].z2 + z
    IN  /\ \A k \in 1..Len(main_antenna_objects) :
              Placed(main_antenna_objects[k],
                     Position(k - 1, Len(main_antenna_objects)), 0, 0)
        /\ \A k \in 1..Len(int_antenna_objects) :
              Placed(int_antenna_objects[k],
                     Position(k - 1, Len(int_antenna_objects))
                         + int_x_spacing,
                     int_y_spacing, int_z_spacing)

\* C28: every LD 4, EX and TL card of the deck names a wire that has a GW
\* card in the deck and belongs to the element that wrote the card, and a
\* segment between 1 and the segment count of that wire
C28_CardsReferToOwnWires ==
    pc = "done" =>
        LET gw == CardsOf(deck, "GW")
            InDeck(tag, seg) ==
                \E k \in 1..Len(gw) :
                    gw[k].tag = tag /\ 1 <= seg /\ seg <= gw[k].seg
            Owns(e, tag, seg) ==
                \E j \in 1..Len(e.wires) :
                    /\ e.wires[j].wire_number = tag
                    /\ 1 <= seg /\ seg <= e.wires[j].segments
        IN  /\ \A k \in 1..Len(deck) :
                  /\ deck[k].card \in {"LD4", "EX6", "EX0", "TL"}
                         => InDeck(deck[k].tag, deck[k].seg)
                  /\ deck[k].card = "LD4"
                         => InDeck(deck[k].tag, deck[k].fields[1])
                  /\ deck[k].card = "TL"
                         => InDeck(deck[k].fields[1], deck[k].fields[2])
            /\ \A objs \in {main_antenna_objects, int_antenna_objects} :
                  \A n \in 1..Len(objs) :
                      LET e == objs[n]
                          cards == repr_loads(e) \o repr_excitations(e)
                                       \o repr_transmissionlines(e)
                      IN  \A k \in 1..Len(cards) :
                              /\ Owns(e, cards[k].tag, cards[k].seg)
                              /\ cards[k].card = "TL"
                                     => Owns(e, cards[k].fields[1],
                                             cards[k].fields[2])

C28_Witness ==
    /\ pc = "done"
    /\ run = 1
    /\ Len(main_antenna_objects) >= 3
    /\ Len(int_antenna_objects) >= 2
    /\ Len(CardsOf(deck, "LD4")) + Len(CardsOf(deck, "TL")) >= 10
    /\ Len(CardsOf(deck, "EX6")) >= 5

\* C29: after a successful generation with m main and i interferometer
\* elements the wire counter is w*(m+i) + 21*f, w being 7 for TTFD and 10
\* for LogPeriodic elements and f the number of fences built (0 without
\* fence, 1 with fence and i = 0, 2 with fence and i > 0); with i = 0 no
\* interferometer geometry, load, excitation or fence is produced
C29_CounterCountsWires ==
    pc = "done" =>
        LET m == IF args.antennas > 0 THEN args.antennas ELSE 0
            i == IF args.int_antennas > 0 THEN args.int_antennas ELSE 0
            w == IF args.log_periodic THEN 10 ELSE 7
            f == IF args.without_fence THEN 0
                 ELSE IF i = 0 THEN 1 ELSE 2
        IN  /\ wire_number = w * (m + i) + 21 * f
            /\ i = 0 =>
                   /\ int_antenna_objects = <<>>
                   /\ Len(CardsOf(deck, "GW")) = w * m + 21 * f
                   /\ Len(CardsOf(deck, "EX6")) = m
                   /\ Len(CardsOf(deck, "LD4"))
                          = (IF args.log_periodic THEN 0 ELSE 2 * m)

====
